---- MODULE Spec2Model ----
(***************************************************************************)
(* Model of priority_scorer.py: the Task record, the TaskPriorityScorer     *)
(* object (its task list), the process clock read by datetime.now(), and   *)
(* one action per public method.                                           *)
(*                                                                         *)
(* Numbers.  Scores are kept in hundredths (9.90 is 990), the weighted sum *)
(* before rounding in thousandths, the deadline factor and the effort      *)
(* efficiency as the integers they always are (10.0 is 10).  The binary    *)
(* floating point error of the weighted sum is below 1e-14 and the exact   *)
(* sum is a multiple of 0.1, so round(score, 2) returns the double nearest *)
(* to the exact decimal value; the model keeps that decimal value.         *)
(*                                                                         *)
(* Time.  A datetime is a day ordinal (date.toordinal) and a time of day   *)
(* in ticks, 0 =< tod < TicksPerDay; tod = 0 is midnight exactly.          *)
(***************************************************************************)
EXTENDS Integers, Sequences, FiniteSets, TLC

VARIABLES
    tasks,      \* self.tasks: the list of Task records
    now,        \* the process clock, what datetime.now() returns
    scoredAt,   \* history: the instant of the last completed score_all_tasks pass
    op,         \* the method that ran last
    arg,        \* its argument (reverse flag, top_n)
    exc,        \* the exception that escaped it, or "none"
    out,        \* what it printed, one tag per message
    rows,       \* the task list it returned or selected, as positions in self.tasks
    stats,      \* the dictionary get_statistics returned
    num         \* the number it returned (a factor, or a score in hundredths)

vars == <<tasks, now, scoredAt, op, arg, exc, out, rows, stats, num>>

----------------------------------------------------------------------------
(* Bounds of the model *)

MaxTasks == 2
MaxRank == 3
MaxDay == 1
TicksPerDay == 2

----------------------------------------------------------------------------
(* Scoring weights, in thousandths *)

URGENCY_WEIGHT == 400
IMPORTANCE_WEIGHT == 300
DEADLINE_WEIGHT == 200
EFFORT_WEIGHT == 100

----------------------------------------------------------------------------
(* Helpers on sequences *)

RECURSIVE Reverse(_)
Reverse(s) == IF s = <<>> THEN <<>> ELSE Append(Reverse(Tail(s)), Head(s))

RECURSIVE SumSeq(_)
SumSeq(s) == IF s = <<>> THEN 0 ELSE Head(s) + SumSeq(Tail(s))

MaxOf(S) == CHOOSE x \in S : \A y \in S : y <= x
MinOf(S) == CHOOSE x \in S : \A y \in S : x <= y

----------------------------------------------------------------------------
(* Calendar: datetime.strptime(s, "%Y-%m-%d") and date.toordinal *)

IsLeap(y) == (y % 4 = 0) /\ ((y % 100 # 0) \/ (y % 400 = 0))

DaysInMonth(y, m) ==
    IF m = 2 THEN (IF IsLeap(y) THEN 29 ELSE 28)
    ELSE IF m \in {4, 6, 9, 11} THEN 30 ELSE 31

RECURSIVE DaysBeforeMonth(_, _)
DaysBeforeMonth(y, m) ==
    IF m <= 1 THEN 0 ELSE DaysBeforeMonth(y, m - 1) + DaysInMonth(y, m - 1)

DaysBeforeYear(y) ==
    (y - 1) * 365 + ((y - 1) \div 4) - ((y - 1) \div 100) + ((y - 1) \div 400)

ToOrdinal(y, m, d) == DaysBeforeYear(y) + DaysBeforeMonth(y, m) + d

(* A deadline value as it sits in Task.deadline: the text "YYYY-MM-DD" with   *)
(* numeric fields (possibly an impossible date), a text that does not match   *)
(* the format (the empty string included), or a value that is no text (None,  *)
(* a number).                                                                 *)
DateText(y, m, d) == [kind |-> "text", y |-> y, m |-> m, d |-> d]
Garbage == [kind |-> "garbage", y |-> 0, m |-> 0, d |-> 0]
NonText == [kind |-> "nontext", y |-> 0, m |-> 0, d |-> 0]

ValidDate(v) ==
    /\ v.kind = "text"
    /\ v.y >= 1
    /\ v.m \in 1..12
    /\ v.d >= 1 /\ v.d <= DaysInMonth(v.y, v.m)

(* strptime: TypeError for a non-text argument, ValueError for a text that is *)
(* no date of the format, else the datetime at midnight of that date.         *)
strptime(v) ==
    IF v.kind = "nontext" THEN [exc |-> "TypeError", day |-> 0, tod |-> 0]
    ELSE IF ~ValidDate(v) THEN [exc |-> "ValueError", day |-> 0, tod |-> 0]
    ELSE [exc |-> "none", day |-> ToOrdinal(v.y, v.m, v.d), tod |-> 0]

(* (a - b).days of two datetimes: timedelta normalises to whole days + a      *)
(* non-negative remainder, so .days is the floor of the difference.           *)
TimedeltaDays(a, b) ==
    ((a.day * TicksPerDay + a.tod) - (b.day * TicksPerDay + b.tod)) \div TicksPerDay

----------------------------------------------------------------------------
(* The scoring functions *)

DeadlineCurve(days_until) ==
    IF days_until < 0 THEN 10
    ELSE IF days_until = 0 THEN 10
    ELSE IF days_until = 1 THEN 9
    ELSE IF days_until <= 3 THEN 8
    ELSE IF days_until <= 7 THEN 6
    ELSE IF days_until <= 14 THEN 4
    ELSE IF days_until <= 30 THEN 2
    ELSE 1

(* calculate_deadline_factor(deadline_str) evaluated when the clock shows     *)
(* today: the factor, the exception that escapes, the warning printed.        *)
calculate_deadline_factor(deadline_str, today) ==
    LET deadline == strptime(deadline_str) IN
    IF deadline.exc = "TypeError"
        THEN [exc |-> "TypeError", value |-> 0, out |-> <<>>]
    ELSE IF deadline.exc = "ValueError"
        THEN [exc |-> "none", value |-> 5, out |-> <<"warning_invalid_deadline">>]
    ELSE [exc |-> "none",
          value |-> DeadlineCurve(TimedeltaDays(deadline, today)),
          out |-> <<>>]

calculate_effort_efficiency_NotInverted(effort) == effort

calculate_effort_efficiency(effort) == 10 - effort

(* round(x, 2) of a value in thousandths, to hundredths, half to even *)
Round2(x) ==
    LET q == x \div 10
        r == x % 10
    IN  IF r < 5 THEN q
        ELSE IF r > 5 THEN q + 1
        ELSE IF q % 2 = 0 THEN q ELSE q + 1

calculate_task_score(task, today) ==
    LET deadline_factor == calculate_deadline_factor(task.deadline, today)
        effort_efficiency == calculate_effort_efficiency(task.effort)
        score == (task.urgency * URGENCY_WEIGHT)
                 + (task.importance * IMPORTANCE_WEIGHT)
                 + (deadline_factor.value * DEADLINE_WEIGHT)
                 + (effort_efficiency * EFFORT_WEIGHT)
    IN  IF deadline_factor.exc # "none"
            THEN [exc |-> deadline_factor.exc, value |-> 0, out |-> deadline_factor.out]
        ELSE [exc |-> "none", value |-> Round2(score), out |-> deadline_factor.out]

(* The positions whose scoring raises, and the first of them (0 when none):   *)
(* the for loop of score_all_tasks stops there.                               *)
Raising(ts, today) ==
    {i \in 1..Len(ts) : calculate_task_score(ts[i], today).exc # "none"}

FirstRaising(ts, today) ==
    IF Raising(ts, today) = {} THEN 0 ELSE MinOf(Raising(ts, today))

RECURSIVE Warnings(_, _, _)
Warnings(ts, today, upto) ==
    IF upto = 0 THEN <<>>
    ELSE Warnings(ts, today, upto - 1) \o calculate_task_score(ts[upto], today).out

(* The task list after the loop of score_all_tasks *)
score_all_tasks(ts, today) ==
    LET bad == FirstRaising(ts, today) IN
    [i \in 1..Len(ts) |->
        IF bad = 0 \/ i < bad
            THEN [ts[i] EXCEPT !.score = calculate_task_score(ts[i], today).value]
            ELSE ts[i]]

----------------------------------------------------------------------------
(* Ranking: sorted(self.tasks, key=lambda t: t.score, reverse=reverse).       *)
(* A Task is an object; the lists hold references, modelled as positions in   *)
(* self.tasks.                                                                *)

Positions(ts) == [i \in 1..Len(ts) |-> i]

(* One insertion of the stable ascending sort: x goes after every element     *)
(* whose key is not greater.                                                  *)
InsertByScore(s, x, ts) ==
    LET k == Cardinality({j \in 1..Len(s) : ts[s[j]].score <= ts[x].score})
    IN  SubSeq(s, 1, k) \o <<x>> \o SubSeq(s, k + 1, Len(s))

RECURSIVE SortAscending(_, _)
SortAscending(idx, ts) ==
    IF idx = <<>> THEN <<>>
    ELSE InsertByScore(SortAscending(SubSeq(idx, 1, Len(idx) - 1), ts), idx[Len(idx)], ts)

get_sorted_tasks_NaiveReverse(ts, reverse) ==
    IF reverse THEN Reverse(SortAscending(Positions(ts), ts))
    ELSE SortAscending(Positions(ts), ts)

(* list.sort with reverse=True reverses the list, sorts it ascending (stable) *)
(* and reverses the result.                                                   *)
get_sorted_tasks(ts, reverse) ==
    IF reverse THEN Reverse(SortAscending(Reverse(Positions(ts)), ts))
    ELSE SortAscending(Positions(ts), ts)

(* s[:n] *)
SliceTo(s, n) ==
    IF n >= 0 THEN SubSeq(s, 1, IF n < Len(s) THEN n ELSE Len(s))
    ELSE SubSeq(s, 1, IF Len(s) + n > 0 THEN Len(s) + n ELSE 0)

(* "if top_n:" is false for None and for 0 *)
Truthy(top) == top.given /\ top.top_n # 0

(* The local sorted_tasks of display_results *)
display_selection(ts, top) ==
    IF Truthy(top) THEN SliceTo(get_sorted_tasks(ts, TRUE), top.top_n)
    ELSE get_sorted_tasks(ts, TRUE)

_get_deadline_display(deadline_str, today) ==
    LET deadline_obj == strptime(deadline_str)
        days_until == TimedeltaDays(deadline_obj, today)
    IN  IF deadline_obj.exc = "TypeError" THEN [exc |-> "TypeError", label |-> ""]
        ELSE IF deadline_obj.exc = "ValueError" THEN [exc |-> "none", label |-> "Unknown"]
        ELSE [exc |-> "none",
              label |-> IF days_until < 0 THEN "OVERDUE"
                        ELSE IF days_until = 0 THEN "TODAY"
                        ELSE IF days_until = 1 THEN "Tomorrow"
                        ELSE IF days_until <= 3 THEN "yellow days"
                        ELSE IF days_until <= 7 THEN "green days"
                        ELSE "days"]

(* The rows display_results prints before a row raises, and what raises *)
FirstBadRow(sel, ts, today) ==
    LET bad == {k \in 1..Len(sel) : _get_deadline_display(ts[sel[k]].deadline, today).exc # "none"}
    IN  IF bad = {} THEN 0 ELSE MinOf(bad)

PrintedRows(sel, ts, today) ==
    LET bad == FirstBadRow(sel, ts, today)
        n == IF bad = 0 THEN Len(sel) ELSE bad - 1
    IN  [k \in 1..n |-> _get_deadline_display(ts[sel[k]].deadline, today).label]

----------------------------------------------------------------------------
(* Statistics *)

(* The values round(n / d, 2) can take, n and the result in hundredths, for   *)
(* d > 0.  Off a tie it is the nearest hundredth.  On an exact decimal tie    *)
(* the double n / d lies just above or just below it, so either neighbour can *)
(* come out.                                                                  *)
RoundedRatio(n, d) ==
    LET q == n \div d
        r == n % d
    IN  IF 2 * r < d THEN {q}
        ELSE IF 2 * r > d THEN {q + 1}
        ELSE {q, q + 1}

(* round(sum(xs) / len(xs), 2): the division raises on an empty list *)
Mean2(xs) ==
    IF Len(xs) = 0 THEN {[exc |-> "ZeroDivisionError", value |-> 0]}
    ELSE {[exc |-> "none", value |-> v] : v \in RoundedRatio(SumSeq(xs), Len(xs))}

IsHigh_Strict(score) == score > 700

IsHigh(score) == score >= 700
IsMedium(score) == 400 <= score /\ score < 700
IsLow(score) == score < 400

NoStats == [none |-> "none"]

StatsDict(ts, average_score, average_urgency) ==
    LET scores == {ts[i].score : i \in 1..Len(ts)} IN
    [total_tasks |-> Len(ts),
     average_score |-> average_score,
     highest_score |-> MaxOf(scores),
     lowest_score |-> MinOf(scores),
     average_urgency |-> average_urgency,
     high_priority_tasks |-> Cardinality({i \in 1..Len(ts) : IsHigh(ts[i].score)}),
     medium_priority_tasks |-> Cardinality({i \in 1..Len(ts) : IsMedium(ts[i].score)}),
     low_priority_tasks |-> Cardinality({i \in 1..Len(ts) : IsLow(ts[i].score)})]

(* The dictionary literal without the emptiness test before it *)
StatsOf(ts) ==
    LET scores == [i \in 1..Len(ts) |-> ts[i].score]
        urgencies == [i \in 1..Len(ts) |-> 100 * ts[i].urgency]
    IN  {IF a.exc # "none" \/ u.exc # "none"
            THEN [exc |-> "ZeroDivisionError", dict |-> NoStats]
            ELSE [exc |-> "none", dict |-> StatsDict(ts, a.value, u.value)] :
         a \in Mean2(scores), u \in Mean2(urgencies)}

get_statistics_NoGuard(ts) == StatsOf(ts)

(* get_statistics: the results it can return *)
get_statistics(ts) ==
    IF Len(ts) = 0 THEN {[exc |-> "none", dict |-> [error |-> "No tasks to analyze"]]}
    ELSE StatsOf(ts)

----------------------------------------------------------------------------
(* Input files of load_tasks_from_json *)

(* A task record of the file: its keys are the Task fields ("ok"), lack a     *)
(* required one ("missing_field") or hold one Task does not have              *)
(* ("unknown_field"); the score key is optional.                              *)
JsonRecord(shape, urgency, deadline, hasScore, score) ==
    [shape |-> shape, name |-> "t", urgency |-> urgency, importance |-> 5,
     effort |-> 5, deadline |-> deadline, hasScore |-> hasScore, score |-> score]

(* The Task constructed from the keys of a record of shape "ok" *)
TaskOfRecord(r) ==
    [name |-> r.name, urgency |-> r.urgency, importance |-> r.importance,
     effort |-> r.effort, deadline |-> r.deadline,
     status |-> "todo", priority |-> "medium",
     score |-> IF r.hasScore THEN r.score ELSE 0]

(* A file: absent, not JSON, JSON whose top level is no object, an object     *)
(* whose 'tasks' is no list (a number, null), an object without 'tasks', or   *)
(* an object with a list of records.                                          *)
File(kind, records) == [kind |-> kind, records |-> records]

(* What load_tasks_from_json does with the file: the exception that escapes,  *)
(* what it prints, and the new task list.                                     *)
load_tasks_from_json(ts, file) ==
    IF file.kind = "absent"
        THEN [exc |-> "none", out |-> <<"error_file_not_found">>, tasks |-> ts]
    ELSE IF file.kind = "invalid_json"
        THEN [exc |-> "none", out |-> <<"error_invalid_json">>, tasks |-> ts]
    ELSE IF file.kind = "not_object"
        THEN [exc |-> "AttributeError", out |-> <<>>, tasks |-> ts]
    ELSE IF file.kind = "tasks_not_list"
        THEN [exc |-> "TypeError", out |-> <<>>, tasks |-> ts]
    ELSE IF file.kind = "no_tasks_key"
        THEN [exc |-> "none", out |-> <<"loaded">>, tasks |-> <<>>]
    ELSE IF \E k \in 1..Len(file.records) : file.records[k].shape # "ok"
        THEN [exc |-> "TypeError", out |-> <<>>, tasks |-> ts]
    ELSE [exc |-> "none", out |-> <<"loaded">>,
          tasks |-> [k \in 1..Len(file.records) |-> TaskOfRecord(file.records[k])]]

----------------------------------------------------------------------------
(* Values of the result variables when a method does not set them *)

NoArg == [reverse |-> TRUE, given |-> FALSE, top_n |-> 0]
NeverScored == [valid |-> FALSE, day |-> 0, tod |-> 0]

NewTask(name, urgency, importance, effort, deadline) ==
    [name |-> name, urgency |-> urgency, importance |-> importance,
     effort |-> effort, deadline |-> deadline,
     status |-> "todo", priority |-> "medium", score |-> 0]

----------------------------------------------------------------------------
(* The clock *)

FirstDay == ToOrdinal(2025, 3, 1)

Instants == [day : FirstDay..(FirstDay + MaxDay), tod : 0..(TicksPerDay - 1)]

----------------------------------------------------------------------------
(* The methods that score *)

CalculateDeadlineFactor(i) ==
    LET r == calculate_deadline_factor(tasks[i].deadline, now) IN
    /\ op' = "calculate_deadline_factor"
    /\ arg' = [NoArg EXCEPT !.given = TRUE, !.top_n = i]
    /\ exc' = r.exc
    /\ out' = r.out
    /\ num' = r.value
    /\ rows' = <<>>
    /\ stats' = NoStats
    /\ UNCHANGED <<tasks, now, scoredAt>>

CalculateTaskScore(i) ==
    LET r == calculate_task_score(tasks[i], now) IN
    /\ op' = "calculate_task_score"
    /\ arg' = [NoArg EXCEPT !.given = TRUE, !.top_n = i]
    /\ exc' = r.exc
    /\ out' = r.out
    /\ num' = r.value
    /\ rows' = <<>>
    /\ stats' = NoStats
    /\ UNCHANGED <<tasks, now, scoredAt>>

ScoreAllTasks ==
    LET bad == FirstRaising(tasks, now) IN
    /\ tasks' = score_all_tasks(tasks, now)
    /\ op' = "score_all_tasks"
    /\ arg' = NoArg
    /\ exc' = IF bad = 0 THEN "none" ELSE calculate_task_score(tasks[bad], now).exc
    /\ out' = IF bad = 0
                 THEN Append(Warnings(tasks, now, Len(tasks)), "scored")
                 ELSE Warnings(tasks, now, bad - 1)
    /\ scoredAt' = IF bad = 0 THEN [valid |-> TRUE, day |-> now.day, tod |-> now.tod]
                   ELSE NeverScored
    /\ num' = 0
    /\ rows' = <<>>
    /\ stats' = NoStats
    /\ UNCHANGED now

----------------------------------------------------------------------------
(* SpecScore: the scoring functions on one task, every urgency, importance    *)
(* and effort of 1..10, deadlines that reach every row of the curve.          *)

ScoreDeadlines ==
    {DateText(2025, 2, 28), DateText(2025, 2, 30), DateText(2025, 3, 1),
     DateText(2025, 3, 2), DateText(2025, 3, 3), DateText(2025, 3, 5),
     DateText(2025, 3, 9), DateText(2025, 3, 16), DateText(2025, 4, 1),
     DateText(2025, 4, 5), DateText(2025, 13, 1), Garbage, NonText}

(* The tasks of the collections of more than one task *)
SmallTasks ==
    {NewTask("t", u, 5, 5, d) :
        u \in {1, 10}, d \in {DateText(2025, 3, 2), Garbage, NonText}}

SeqsOf(S, lo, hi) == UNION {[1..n -> S] : n \in lo..hi}

InitResults ==
    /\ scoredAt = NeverScored
    /\ op = "init"
    /\ arg = NoArg
    /\ exc = "none"
    /\ out = <<>>
    /\ rows = <<>>
    /\ stats = NoStats
    /\ num = 0

InitScore ==
    /\ \/ \E u \in 1..10, i \in 1..10, e \in 1..10, d \in ScoreDeadlines :
              tasks = <<NewTask("a", u, i, e, d)>>
       \/ tasks \in SeqsOf(SmallTasks, 2, MaxTasks)
    /\ now \in Instants
    /\ InitResults

NextScore ==
    \/ \E i \in 1..Len(tasks) : CalculateDeadlineFactor(i)
    \/ \E i \in 1..Len(tasks) : CalculateTaskScore(i)
    \/ ScoreAllTasks

SpecScore == InitScore /\ [][NextScore]_vars

----------------------------------------------------------------------------
(* The other methods *)

LoadTasksFromJson(file) ==
    LET r == load_tasks_from_json(tasks, file) IN
    /\ tasks' = r.tasks
    /\ op' = "load_tasks_from_json"
    /\ arg' = NoArg
    /\ exc' = r.exc
    /\ out' = r.out
    /\ scoredAt' = IF r.out = <<"loaded">> THEN NeverScored ELSE scoredAt
    /\ num' = 0
    /\ rows' = <<>>
    /\ stats' = NoStats
    /\ UNCHANGED now

AddTask(task) ==
    /\ Len(tasks) < MaxTasks
    /\ tasks' = Append(tasks, task)
    /\ op' = "add_task"
    /\ arg' = NoArg
    /\ exc' = "none"
    /\ out' = <<>>
    /\ scoredAt' = NeverScored
    /\ num' = 0
    /\ rows' = <<>>
    /\ stats' = NoStats
    /\ UNCHANGED now

GetSortedTasks(reverse) ==
    /\ op' = "get_sorted_tasks"
    /\ arg' = [NoArg EXCEPT !.reverse = reverse]
    /\ exc' = "none"
    /\ out' = <<>>
    /\ rows' = get_sorted_tasks(tasks, reverse)
    /\ num' = 0
    /\ stats' = NoStats
    /\ UNCHANGED <<tasks, now, scoredAt>>

DisplayResults(top) ==
    LET sorted_tasks == display_selection(tasks, top)
        bad == FirstBadRow(sorted_tasks, tasks, now)
    IN  /\ op' = "display_results"
        /\ arg' = top
        /\ rows' = sorted_tasks
        /\ exc' = IF bad = 0 THEN "none" ELSE "TypeError"
        /\ out' = <<IF Truthy(top) THEN "header_top" ELSE "header_all">>
                  \o PrintedRows(sorted_tasks, tasks, now)
        /\ num' = 0
        /\ stats' = NoStats
        /\ UNCHANGED <<tasks, now, scoredAt>>

GetStatistics ==
    \E r \in get_statistics(tasks) :
        /\ op' = "get_statistics"
        /\ arg' = NoArg
        /\ exc' = r.exc
        /\ stats' = r.dict
        /\ out' = <<>>
        /\ num' = 0
        /\ rows' = <<>>
        /\ UNCHANGED <<tasks, now, scoredAt>>

DisplayStatistics ==
    \E r \in get_statistics(tasks) :
        /\ op' = "display_statistics"
        /\ arg' = NoArg
        /\ exc' = r.exc
        /\ stats' = r.dict
        /\ out' = IF r.exc # "none" THEN <<>>
                  ELSE IF "error" \in DOMAIN r.dict THEN <<r.dict.error>>
                  ELSE <<"statistics_block">>
        /\ num' = 0
        /\ rows' = <<>>
        /\ UNCHANGED <<tasks, now, scoredAt>>

(* export_results: the file holds the tasks in ranked order when the write    *)
(* succeeds; a failing write is caught and reported.                          *)
ExportResults(writable) ==
    /\ op' = "export_results"
    /\ arg' = NoArg
    /\ exc' = "none"
    /\ rows' = get_sorted_tasks(tasks, TRUE)
    /\ out' = IF writable THEN <<"exported">> ELSE <<"error_exporting">>
    /\ num' = 0
    /\ stats' = NoStats
    /\ UNCHANGED <<tasks, now, scoredAt>>

(* Time passes between two calls *)
Tick ==
    /\ \/ /\ now.tod < TicksPerDay - 1
          /\ now' = [now EXCEPT !.tod = now.tod + 1]
       \/ /\ now.tod = TicksPerDay - 1
          /\ now.day < FirstDay + MaxDay
          /\ now' = [day |-> now.day + 1, tod |-> 0]
    /\ UNCHANGED <<tasks, scoredAt, op, arg, exc, out, rows, stats, num>>

TopArgs(n) ==
    {NoArg} \cup {[reverse |-> TRUE, given |-> TRUE, top_n |-> k] : k \in (-1)..(n + 1)}

----------------------------------------------------------------------------
(* Spec: the scorer object from construction on, every method callable in any *)
(* order.                                                                     *)

SpecRecords ==
    {JsonRecord("ok", u, DateText(2025, 3, 2), FALSE, 0) : u \in {1, 10}}
    \cup {JsonRecord("ok", 1, d, FALSE, 0) : d \in {Garbage, NonText}}
    \cup {JsonRecord("ok", 10, DateText(2025, 3, 2), TRUE, 400),
          JsonRecord("missing_field", 1, DateText(2025, 3, 2), FALSE, 0),
          JsonRecord("unknown_field", 1, DateText(2025, 3, 2), FALSE, 0)}

FailingFiles ==
    {File(k, <<>>) : k \in {"absent", "invalid_json", "not_object", "tasks_not_list"}}
    \cup {f \in {File("object", rs) : rs \in SeqsOf(SpecRecords, 1, MaxTasks)} :
            \E k \in 1..Len(f.records) : f.records[k].shape # "ok"}

Files ==
    {File(k, <<>>) : k \in {"absent", "invalid_json", "not_object", "tasks_not_list",
                            "no_tasks_key"}}
    \cup {File("object", rs) : rs \in SeqsOf(SpecRecords, 0, MaxTasks)}

Init ==
    /\ tasks = <<>>
    /\ now \in Instants
    /\ InitResults

Next ==
    \/ \E file \in Files : LoadTasksFromJson(file)
    \/ \E task \in SmallTasks : AddTask(task)
    \/ \E i \in 1..Len(tasks) : CalculateDeadlineFactor(i)
    \/ \E i \in 1..Len(tasks) : CalculateTaskScore(i)
    \/ ScoreAllTasks
    \/ \E reverse \in BOOLEAN : GetSortedTasks(reverse)
    \/ \E top \in TopArgs(MaxTasks) : DisplayResults(top)
    \/ GetStatistics
    \/ DisplayStatistics
    \/ \E writable \in BOOLEAN : ExportResults(writable)
    \/ Tick

Spec == Init /\ [][Next]_vars

----------------------------------------------------------------------------
(* SpecRank: ranking, selection and statistics over every scored collection   *)
(* of up to MaxRank tasks.  A task's score is 0 (never scored) or the         *)
(* weighted sum with one of the factors the curve gives.                      *)

RankTasks ==
    {[NewTask("r", u, 5, 5, DateText(2025, 3, 2)) EXCEPT
         !.score = Round2(u * URGENCY_WEIGHT + 5 * IMPORTANCE_WEIGHT
                          + f * DEADLINE_WEIGHT
                          + calculate_effort_efficiency(5) * EFFORT_WEIGHT)] :
        u \in {4, 10}, f \in {2, 5}}
    \cup {NewTask("r", 4, 5, 5, DateText(2025, 3, 2))}

InitRank ==
    /\ tasks \in SeqsOf(RankTasks, 0, MaxRank)
    /\ now = [day |-> FirstDay, tod |-> 1]
    /\ InitResults

NextRank ==
    \/ \E reverse \in BOOLEAN : GetSortedTasks(reverse)
    \/ \E top \in TopArgs(MaxRank) : DisplayResults(top)
    \/ GetStatistics
    \/ DisplayStatistics
    \/ \E writable \in BOOLEAN : ExportResults(writable)

SpecRank == InitRank /\ [][NextRank]_vars

----------------------------------------------------------------------------
(* Claims about the scoring functions, checked under SpecScore *)

ArgTask == tasks[arg.top_n]

(* The documented weighted sum, in hundredths, with the factor f *)
WeightedSum(t, f) == 40 * t.urgency + 30 * t.importance + 20 * f + 10 * (10 - t.effort)

FactorNow(t) == calculate_deadline_factor(t.deadline, now).value

(* C1: for a task with urgency, importance and effort in 1..10 and a deadline *)
(* that parses, calculate_task_score returns urgency*0.4 + importance*0.3 +   *)
(* factor*0.2 + (10 - effort)*0.1 to two decimals, and score_all_tasks on a   *)
(* collection of such tasks stores that value in every task's score; the two  *)
(* worked examples give 9.90 and 0.90.                                        *)
C1_ScoreIsWeightedSum ==
    /\ (op = "calculate_task_score" /\ ValidDate(ArgTask.deadline)) =>
           /\ exc = "none"
           /\ num = WeightedSum(ArgTask, FactorNow(ArgTask))
    /\ (op = "score_all_tasks" /\ \A i \in 1..Len(tasks) : ValidDate(tasks[i].deadline)) =>
           /\ exc = "none"
           /\ \A i \in 1..Len(tasks) :
                  /\ tasks[i].score = WeightedSum(tasks[i], FactorNow(tasks[i]))
                  /\ (tasks[i].urgency = 10 /\ tasks[i].importance = 10
                        /\ tasks[i].effort = 1 /\ FactorNow(tasks[i]) = 10)
                       => tasks[i].score = 990
                  /\ (tasks[i].urgency = 1 /\ tasks[i].importance = 1
                        /\ tasks[i].effort = 10 /\ FactorNow(tasks[i]) = 1)
                       => tasks[i].score = 90

C1_Witness ==
    /\ op = "score_all_tasks"
    /\ tasks[1].urgency = 1 /\ tasks[1].importance = 1 /\ tasks[1].effort = 10
    /\ ValidDate(tasks[1].deadline)
    /\ tasks[1].score = 90

(* C2: for a deadline that parses, calculate_deadline_factor returns the      *)
(* curve applied to the calendar-date difference between the deadline and the *)
(* evaluation date, whatever the time of day of the evaluation; a deadline    *)
(* dated the day after the evaluation date gives 9.0.                         *)
C2_FactorIgnoresTimeOfDay ==
    (op = "calculate_deadline_factor" /\ ValidDate(ArgTask.deadline)) =>
        /\ exc = "none"
        /\ num = DeadlineCurve(strptime(ArgTask.deadline).day - now.day)
        /\ (strptime(ArgTask.deadline).day = now.day + 1) => num = 9

(* C3: for a deadline that does not parse (wrong format, impossible date,     *)
(* empty, or no text at all) calculate_deadline_factor returns 5.0 with a     *)
(* warning, calculate_task_score and score_all_tasks raise nothing, and the   *)
(* score is the weighted sum with factor 5.0 for every such task.             *)
C3_BadDeadlineNeverRaises ==
    /\ (op = "calculate_deadline_factor" /\ ~ValidDate(ArgTask.deadline)) =>
           exc = "none" /\ num = 5 /\ out = <<"warning_invalid_deadline">>
    /\ (op = "calculate_task_score" /\ ~ValidDate(ArgTask.deadline)) =>
           exc = "none" /\ num = WeightedSum(ArgTask, 5)
    /\ op = "score_all_tasks" =>
           /\ exc = "none"
           /\ \A i \in 1..Len(tasks) :
                  ~ValidDate(tasks[i].deadline) => tasks[i].score = WeightedSum(tasks[i], 5)

----------------------------------------------------------------------------
(* Claims about ranking, selection and statistics, checked under SpecRank *)

ScoreAt(k) == tasks[rows[k]].score

(* C4: get_sorted_tasks returns a permutation of the collection ordered by    *)
(* score, descending for reverse=True and ascending for reverse=False, and    *)
(* tasks of equal score keep their relative input order in both directions.   *)
C4_SortedStablePermutation ==
    op = "get_sorted_tasks" =>
        /\ Len(rows) = Len(tasks)
        /\ {rows[k] : k \in 1..Len(rows)} = 1..Len(tasks)
        /\ \A j, k \in 1..Len(rows) :
              j < k =>
                 /\ IF arg.reverse THEN ScoreAt(j) >= ScoreAt(k)
                                   ELSE ScoreAt(j) <= ScoreAt(k)
                 /\ ScoreAt(j) = ScoreAt(k) => rows[j] < rows[k]

C4_Witness ==
    /\ op = "get_sorted_tasks"
    /\ arg.reverse
    /\ Len(tasks) = 3
    /\ tasks[1].score = tasks[3].score
    /\ tasks[2].score > tasks[1].score
    /\ rows = <<2, 1, 3>>

(* C5: a top-N request over S tasks selects the first min(N, S) tasks of the  *)
(* descending ranking when N >= 1 and the empty sequence when N <= 0.         *)
C5_TopNSelection ==
    (op = "display_results" /\ arg.given) =>
        rows = IF arg.top_n >= 1
                  THEN SubSeq(get_sorted_tasks(tasks, TRUE), 1,
                              IF arg.top_n < Len(tasks) THEN arg.top_n ELSE Len(tasks))
                  ELSE <<>>

(* C7: for a non-empty collection get_statistics puts each task in exactly    *)
(* one of high (score >= 7.0), medium (4.0 <= score < 7.0), low (score < 4.0) *)
(* and the three counts add up to total_tasks, the length of the collection.  *)
C7_BucketsPartition ==
    (op = "get_statistics" /\ tasks # <<>>) =>
        /\ exc = "none"
        /\ stats.total_tasks = Len(tasks)
        /\ stats.high_priority_tasks + stats.medium_priority_tasks
              + stats.low_priority_tasks = stats.total_tasks
        /\ stats.high_priority_tasks
              = Cardinality({i \in 1..Len(tasks) : tasks[i].score >= 700})
        /\ stats.medium_priority_tasks
              = Cardinality({i \in 1..Len(tasks) :
                                tasks[i].score >= 400 /\ tasks[i].score < 700})
        /\ stats.low_priority_tasks
              = Cardinality({i \in 1..Len(tasks) : tasks[i].score < 400})

C7_Witness ==
    /\ op = "get_statistics"
    /\ Len(tasks) = 3
    /\ {tasks[i].score : i \in 1..3} = {0, 400, 700}
    /\ stats.high_priority_tasks = 1
    /\ stats.medium_priority_tasks = 1
    /\ stats.low_priority_tasks = 1

(* C8: on an empty collection get_statistics returns the 'no data' error      *)
(* result with none of the numeric statistics, divides nothing and raises     *)
(* nothing; display_statistics prints that error and no statistics block.     *)
C8_EmptyCollectionNoData ==
    /\ (op = "get_statistics" /\ tasks = <<>>) =>
           /\ exc = "none"
           /\ DOMAIN stats = {"error"}
           /\ stats.error = "No tasks to analyze"
    /\ (op = "display_statistics" /\ tasks = <<>>) =>
           /\ exc = "none"
           /\ out = <<"No tasks to analyze">>

C8_Witness ==
    /\ op = "display_statistics"
    /\ tasks = <<>>
    /\ out = <<"No tasks to analyze">>
    /\ DOMAIN stats = {"error"}

----------------------------------------------------------------------------
(* Claims about the scorer object, checked under Spec *)

SameButScore(a, b) == [a EXCEPT !.score = 0] = [b EXCEPT !.score = 0]

(* C6: a load that fails because the file is absent or structurally invalid   *)
(* lets no exception escape and leaves the task collection as it was.         *)
C6_FailedLoadIsContained ==
    [][\A file \in FailingFiles :
          LoadTasksFromJson(file) => (exc' = "none" /\ tasks' = tasks)]_vars

(* C9: a run of score_all_tasks changes nothing but the score fields, and a   *)
(* run on a collection already scored on the same date, its fields unchanged  *)
(* since, leaves every score as it was.                                       *)
C9_RescoringIsIdempotent ==
    [][ScoreAllTasks =>
          /\ Len(tasks') = Len(tasks)
          /\ \A i \in 1..Len(tasks) : SameButScore(tasks'[i], tasks[i])
          /\ (scoredAt.valid /\ scoredAt.day = now.day) => tasks' = tasks]_vars

(* C10: after a successful load every task's score is the initial zero,       *)
(* whatever score the record of the file contained.                           *)
C10_InputScoreIgnored ==
    (op = "load_tasks_from_json" /\ out = <<"loaded">>) =>
        \A i \in 1..Len(tasks) : tasks[i].score = 0

====
